---------------------------- MODULE Spec2Model ----------------------------
(***************************************************************************)
(* Resumable, bounded-concurrency CSV -> Elasticsearch batch migration.    *)
(*                                                                         *)
(* The specifications share the variables below:                           *)
(*   Spec      the migration process (src/src/main.rs): start-up, batch    *)
(*             planning, the buffer_unordered dispatcher, the per-batch    *)
(*             tasks, the ctrl-c shutdown task, the final phase, and the   *)
(*             operator starting the process again;                        *)
(*   SpecFair  Spec under a runtime that keeps polling main and the        *)
(*             shutdown task (for the claims about what eventually         *)
(*             happens);                                                   *)
(*   SpecCkpt  the MigrationCheckpoint API on its own                      *)
(*             (src/src/checkpoint.rs): any sequence of                    *)
(*             add_completed_batch / add_failed_batch calls;               *)
(*   SpecPlan  the CSV read and the batch construction on their own, for   *)
(*             any length, batch size and resume point;                    *)
(*   SpecBulk  bulk_index_documents on its own                             *)
(*             (src/src/elasticsearch.rs): any documents, any response;    *)
(*   SpecDoc   the extracted fields of from_record on their own            *)
(*             (src/src/models_flexible.rs, src/src/collection_config.rs). *)
(*                                                                         *)
(* Indices and counters are usize / u64 in the source; every value of the  *)
(* model is far below 2^64, so no operation wraps.  start_time is a wall   *)
(* clock stamp no code path reads back; it is left out of the record.      *)
(***************************************************************************)
EXTENDS Integers, Sequences, FiniteSets, TLC

VARIABLES
    csv,               \* the source file: [len, noId] (rows, rows without token_id)
    config,            \* APP_CONFIG: [batch_size, workers]
    file,              \* the checkpoint artifact <csv_file>.checkpoint
    run,               \* how many times the process has been started
    status,            \* "running", or how the process ended
    mpc,               \* position of main
    checkpoint,        \* the MigrationCheckpoint inside checkpoint_mutex
    loaded,            \* history: checkpoint as it was when dispatch began
    total_records,     \* main's local total_records
    remaining_records, \* main's local remaining_records
    batches,           \* main's local batches: <<[start_index, docs]>>
    processed_count,   \* the AtomicU64 processed_count
    tpc,               \* position of each per-batch future
    new_total,         \* each per-batch future's local new_total
    results,           \* each per-batch future's result: "ok" / "err"
    lock,              \* owner of checkpoint_mutex
    hpc,               \* position of the shutdown task
    order,             \* history: batches in the order their update finished
    waiters,           \* checkpoint_mutex's queue: who asked for the lock, oldest first
    signal_at,         \* history: where main was when the signal was received
    call_in,           \* a function called on its own: the arguments
    call_out           \* a function called on its own: the value returned

vars == <<csv, config, file, run, status, mpc, checkpoint, loaded,
          total_records, remaining_records, batches, processed_count,
          tpc, new_total, results, lock, hpc, order, waiters,
          signal_at, call_in, call_out>>

---------------------------------------------------------------------------
(* Bounds of the model *)

MaxRecords == 3
MaxBatchSize == 2
MaxWorkers == 2
MaxRuns == 2
MaxNoId == 1
MaxStart == 3
MaxSize == 2
MaxCalls == 3
MaxFailed == 1
MaxPlanRecords == 6
MaxPlanBatch == 4
MaxBulkDocs == 3

---------------------------------------------------------------------------
(* MigrationCheckpoint: src/src/checkpoint.rs *)

CsvFile == "data.csv"
OtherCsvFile == "other.csv"

\* MigrationCheckpoint::new
New(csv_file_path, total) ==
    [csv_file_path          |-> csv_file_path,
     total_records          |-> total,
     processed_records      |-> 0,
     successful_batches     |-> 0,
     failed_batches         |-> 0,
     completed_batch_ranges |-> <<>>]

\* an insertion that puts the new range before the ranges of equal start
RECURSIVE InsertByStart_BeforeEqual(_, _)
InsertByStart_BeforeEqual(s, r) ==
    IF s = <<>> THEN <<r>>
    ELSE IF r[1] <= Head(s)[1] THEN <<r>> \o s
    ELSE <<Head(s)>> \o InsertByStart_BeforeEqual(Tail(s), r)

\* sort_by_key(|r| r.0) is a stable sort: equal starts keep insertion order
RECURSIVE InsertByStart(_, _)
InsertByStart(s, r) ==
    IF s = <<>> THEN <<r>>
    ELSE IF r[1] < Head(s)[1] THEN <<r>> \o s
    ELSE <<Head(s)>> \o InsertByStart(Tail(s), r)

RECURSIVE SortByStart(_)
SortByStart(s) ==
    IF s = <<>> THEN <<>>
    ELSE InsertByStart(SortByStart(SubSeq(s, 1, Len(s) - 1)), s[Len(s)])

\* the for loop of get_safe_resume_point over the sorted ranges
RECURSIVE WalkRanges(_, _)
WalkRanges(s, safe_point) ==
    IF s = <<>> THEN safe_point
    ELSE IF Head(s)[1] = safe_point THEN WalkRanges(Tail(s), Head(s)[2])
    ELSE IF Head(s)[1] > safe_point THEN safe_point
    ELSE WalkRanges(Tail(s), safe_point)

RECURSIVE MaxEnd(_)
MaxEnd(s) ==
    IF s = <<>> THEN 0
    ELSE LET m == MaxEnd(Tail(s)) IN IF Head(s)[2] > m THEN Head(s)[2] ELSE m

\* a resume point that trusts any completed batch: the highest end recorded
GetSafeResumePoint_MaxEnd(c) == MaxEnd(c.completed_batch_ranges)

\* the walk without the sort: ranges taken in insertion order
GetSafeResumePoint_NoSort(c) == WalkRanges(c.completed_batch_ranges, 0)

\* the walk that moves on at a gap instead of stopping
RECURSIVE WalkRanges_SkipGap(_, _)
WalkRanges_SkipGap(s, safe_point) ==
    IF s = <<>> THEN safe_point
    ELSE IF Head(s)[1] >= safe_point THEN WalkRanges_SkipGap(Tail(s), Head(s)[2])
    ELSE WalkRanges_SkipGap(Tail(s), safe_point)

GetSafeResumePoint_SkipGap(c) == WalkRanges_SkipGap(SortByStart(c.completed_batch_ranges), 0)

\* MigrationCheckpoint::get_safe_resume_point
GetSafeResumePoint(c) ==
    IF c.completed_batch_ranges = <<>> THEN 0
    ELSE WalkRanges(SortByStart(c.completed_batch_ranges), 0)

PushRange_NextRow(c, start_index, batch_size) ==
    [c EXCEPT !.completed_batch_ranges =
        Append(@, <<start_index + 1, start_index + 1 + batch_size>>)]

PushRange_Front(c, start_index, batch_size) ==
    [c EXCEPT !.completed_batch_ranges = <<<<start_index, start_index + batch_size>>>> \o @]

\* the three statements of add_completed_batch, in source order
PushRange(c, start_index, batch_size) ==
    [c EXCEPT !.completed_batch_ranges = Append(@, <<start_index, start_index + batch_size>>)]

AddProcessed_ByOne(c, batch_size) == [c EXCEPT !.processed_records = @ + 1]

AddProcessed(c, batch_size) == [c EXCEPT !.processed_records = @ + batch_size]

AddSuccessful(c) == [c EXCEPT !.successful_batches = @ + 1]

\* MigrationCheckpoint::add_completed_batch
AddCompletedBatch(c, start_index, batch_size) ==
    AddSuccessful(AddProcessed(PushRange(c, start_index, batch_size), batch_size))

AddFailedBatch_CountsProcessed(c) ==
    [c EXCEPT !.failed_batches = @ + 1, !.processed_records = @ + 1]

\* MigrationCheckpoint::add_failed_batch
AddFailedBatch(c) == [c EXCEPT !.failed_batches = @ + 1]

\* MigrationCheckpoint::is_completed
IsCompleted_Strict(c) == c.processed_records > c.total_records

IsCompleted(c) == c.processed_records >= c.total_records

\* MigrationCheckpoint::progress_percentage, in whole percent (rounded down)
ProgressPercentage(c) ==
    IF c.total_records = 0 THEN 0
    ELSE (c.processed_records * 100) \div c.total_records


---------------------------------------------------------------------------
(* The checkpoint artifact: save / load / cleanup, src/src/checkpoint.rs *)

NoFile == [exists |-> FALSE, valid |-> FALSE, json |-> <<>>]
CorruptFile == [exists |-> TRUE, valid |-> FALSE, json |-> <<>>]

\* serde_json::to_string_pretty(self): the fields in declaration order
ToJson(c) ==
    <<c.csv_file_path, c.total_records, c.processed_records,
      c.successful_batches, c.failed_batches, c.completed_batch_ranges>>

\* serde_json::from_str(&content)
FromJson(j) ==
    [csv_file_path          |-> j[1],
     total_records          |-> j[2],
     processed_records      |-> j[3],
     successful_batches     |-> j[4],
     failed_batches         |-> j[5],
     completed_batch_ranges |-> j[6]]

\* what a successful MigrationCheckpoint::save leaves on disk
Saved(c) == [exists |-> TRUE, valid |-> TRUE, json |-> ToJson(c)]

\* a checkpoint another dataset left at this path
ForeignFile == Saved(AddCompletedBatch(New(OtherCsvFile, 1), 0, 1))

\* a checkpoint of this source, left by an interrupted run when the source
\* held two rows: the first row is done
StaleFile == Saved(AddCompletedBatch(New(CsvFile, 2), 0, 1))

Load_IgnoreCorrupt(f, csv_file) ==
    IF ~f.exists \/ ~f.valid THEN [err |-> FALSE, some |-> FALSE, cp |-> New(csv_file, 0)]
    ELSE IF FromJson(f.json).csv_file_path # csv_file
         THEN [err |-> FALSE, some |-> FALSE, cp |-> New(csv_file, 0)]
    ELSE [err |-> FALSE, some |-> TRUE, cp |-> FromJson(f.json)]

Load_AcceptForeign(f, csv_file) ==
    IF ~f.exists THEN [err |-> FALSE, some |-> FALSE, cp |-> New(csv_file, 0)]
    ELSE IF ~f.valid THEN [err |-> TRUE, some |-> FALSE, cp |-> New(csv_file, 0)]
    ELSE [err |-> FALSE, some |-> TRUE, cp |-> FromJson(f.json)]

\* MigrationCheckpoint::load: Err, Ok(None) or Ok(Some(checkpoint))
Load(f, csv_file) ==
    IF ~f.exists THEN [err |-> FALSE, some |-> FALSE, cp |-> New(csv_file, 0)]
    ELSE IF ~f.valid THEN [err |-> TRUE, some |-> FALSE, cp |-> New(csv_file, 0)]
    ELSE IF FromJson(f.json).csv_file_path # csv_file
         THEN [err |-> FALSE, some |-> FALSE, cp |-> New(csv_file, 0)]
    ELSE [err |-> FALSE, some |-> TRUE, cp |-> FromJson(f.json)]

---------------------------------------------------------------------------
(* Reading the source and planning the batches: src/src/main.rs 65-127 *)

\* the rows kept by the read loop, each with its original index
RetainedRecords_Inclusive(len, resume_point) ==
    SelectSeq([k \in 1..len |-> k - 1], LAMBDA record_index : ~(record_index <= resume_point))

RetainedRecords(len, resume_point) ==
    SelectSeq([k \in 1..len |-> k - 1], LAMBDA record_index : ~(record_index < resume_point))

\* the batch construction loop and the final partial batch
RECURSIVE BuildBatches(_, _, _, _, _)
BuildBatches(records, batch_size, out, current_batch, batch_start_index) ==
    IF records = <<>>
    THEN IF current_batch # <<>>
         THEN Append(out, [start_index |-> batch_start_index, docs |-> current_batch])
         ELSE out
    ELSE LET record_index == Head(records)
             start == IF current_batch = <<>> THEN record_index ELSE batch_start_index
             grown == Append(current_batch, record_index)
         IN IF Len(grown) >= batch_size
            THEN BuildBatches(Tail(records), batch_size,
                              Append(out, [start_index |-> start, docs |-> grown]), <<>>, start)
            ELSE BuildBatches(Tail(records), batch_size, out, grown, start)

PlanBatches_Oversize(records, batch_size) ==
    BuildBatches(records, batch_size + 1, <<>>, <<>>, 0)

PlanBatches(records, batch_size) == BuildBatches(records, batch_size, <<>>, <<>>, 0)

---------------------------------------------------------------------------
(* bulk_index_documents: src/src/elasticsearch.rs *)

\* documents that carry a token_id
ValidDocs(docs) == Len(SelectSeq(docs, LAMBDA d : d \notin csv.noId))

\* the save condition of the success arm (main.rs 164)
BatchInterval == 10
RecordInterval == 10000
SaveDue(batch_num, total) == batch_num % BatchInterval = 0 \/ total % RecordInterval = 0

\* the progress report condition (main.rs 171)
ReportDue(total) == total % RecordInterval = 0 \/ total = remaining_records

---------------------------------------------------------------------------
(* The process: src/src/main.rs *)

\* the per-batch futures of the stream, one per planned batch
Tasks == 1..Len(tpc)
Active == {i \in Tasks : tpc[i] \notin {"idle", "done"}}
Running == status = "running"

NoTasks == <<>>

\* no function is being called on its own
NoCall == <<>>

Init ==
    /\ csv \in {c \in [len : 0..MaxRecords, noId : SUBSET (0..(MaxRecords - 1))] :
                  /\ c.noId \subseteq 0..(c.len - 1)
                  /\ Cardinality(c.noId) <= MaxNoId}
    /\ config \in [batch_size : 1..MaxBatchSize, workers : 1..MaxWorkers]
    /\ file \in {NoFile, CorruptFile, ForeignFile, StaleFile}
    /\ run = 1
    /\ status = "running"
    /\ mpc = "load"
    /\ checkpoint = New(CsvFile, 0)
    /\ loaded = New(CsvFile, 0)
    /\ total_records = 0
    /\ remaining_records = 0
    /\ batches = <<>>
    /\ processed_count = 0
    /\ tpc = NoTasks
    /\ new_total = NoTasks
    /\ results = NoTasks
    /\ lock = "free"
    /\ hpc = "none"
    /\ order = <<>>
    /\ waiters = <<>>
    /\ signal_at = "none"
    /\ call_in = NoCall
    /\ call_out = NoCall

\* main.rs 29-42: load the checkpoint or start a new one
LoadCheckpoint ==
    /\ Running /\ mpc = "load"
    /\ LET l == Load(file, CsvFile) IN
        IF l.err
        THEN /\ status' = "error"
             /\ UNCHANGED <<mpc, checkpoint>>
        ELSE /\ checkpoint' = l.cp
             /\ mpc' = "health"
             /\ UNCHANGED status
    /\ UNCHANGED <<call_in, call_out, signal_at, csv, config, file, run, loaded, total_records, remaining_records,
                   batches, processed_count, tpc, new_total, results, lock, hpc, order, waiters>>

\* main.rs 55-58: the cluster health request
HealthCheck ==
    /\ Running /\ mpc = "health"
    /\ \E healthy \in BOOLEAN :
        IF healthy
        THEN mpc' = "read" /\ UNCHANGED status
        ELSE status' = "error" /\ UNCHANGED mpc
    /\ UNCHANGED <<call_in, call_out, signal_at, csv, config, file, run, checkpoint, loaded, total_records,
                   remaining_records, batches, processed_count, tpc, new_total,
                   results, lock, hpc, order, waiters>>

SetTotalRecords_Always(c, total) == [c EXCEPT !.total_records = total]

\* main.rs 86-88: total_records is set only while it is still 0
SetTotalRecords(c, total) ==
    IF c.total_records = 0 THEN [c EXCEPT !.total_records = total] ELSE c

\* main.rs 62-88: read the rows, skip below the resume point, set total_records
ReadCsv ==
    /\ Running /\ mpc = "read"
    /\ \E readable \in BOOLEAN :
        IF readable
        THEN LET resume_point == GetSafeResumePoint(checkpoint)
                 records == RetainedRecords(csv.len, resume_point)
             IN /\ total_records' = csv.len
                /\ remaining_records' = Len(records)
                /\ batches' = PlanBatches(records, config.batch_size)
                /\ checkpoint' = SetTotalRecords(checkpoint, csv.len)
                /\ mpc' = "planned"
                /\ UNCHANGED status
        ELSE /\ status' = "error"
             /\ UNCHANGED <<mpc, total_records, remaining_records, batches, checkpoint>>
    /\ UNCHANGED <<call_in, call_out, signal_at, csv, config, file, run, loaded, processed_count, tpc, new_total,
                   results, lock, hpc, order, waiters>>

Cleanup_KeepsFile(f, removed) == f

\* MigrationCheckpoint::cleanup: remove the artifact if it exists
Cleanup(f, removed) == IF f.exists /\ removed THEN NoFile ELSE f

\* main.rs 96-100: nothing remains, remove the artifact and return Ok
EarlyExit ==
    /\ Running /\ mpc = "planned" /\ remaining_records = 0
    /\ \E removed \in BOOLEAN :
        /\ file' = Cleanup(file, removed)
        /\ status' = IF file.exists /\ ~removed THEN "error" ELSE "exit0"
    /\ UNCHANGED <<call_in, call_out, signal_at, csv, config, run, mpc, checkpoint, loaded, total_records,
                   remaining_records, batches, processed_count, tpc, new_total,
                   results, lock, hpc, order, waiters>>

\* main.rs 103-142: the counter, the mutex, the shutdown task
BeginDispatch ==
    /\ Running /\ mpc = "planned" /\ remaining_records # 0
    /\ processed_count' = 0
    /\ tpc' = [i \in 1..Len(batches) |-> "idle"]
    /\ new_total' = [i \in 1..Len(batches) |-> 0]
    /\ results' = [i \in 1..Len(batches) |-> "none"]
    /\ lock' = "free"
    /\ waiters' = <<>>
    /\ signal_at' = "none"
    /\ hpc' = "listening"
    /\ loaded' = checkpoint
    /\ mpc' = "dispatch"
    /\ UNCHANGED <<call_in, call_out, csv, config, file, run, status, checkpoint, total_records,
                   remaining_records, batches, order>>

---------------------------------------------------------------------------
(* The dispatcher and the per-batch futures: src/src/main.rs 144-193 *)

\* buffer_unordered(APP_CONFIG.workers) starts a future only below the bound
CanStart_Unbounded == TRUE

CanStart_StopOnFailure ==
    /\ Cardinality({i \in 1..Len(tpc) : tpc[i] \notin {"idle", "done"}}) < config.workers
    /\ \A i \in 1..Len(results) : results[i] # "err"

CanStart == Cardinality(Active) < config.workers

\* tokio::sync::Mutex: lock().await completes only while no guard is alive
LockFree_NoMutex == TRUE

LockFree == lock = "free"

\* tokio::sync::Mutex is fair: lock().await completes in the order it was asked for
Turn_Barging(who) == TRUE

Turn(who) == waiters # <<>> /\ Head(waiters) = who

\* what the bulk request can come back with: no answer, a non-2xx status, an
\* undecodable body, or a 2xx body whose items report item_errors errors
Responses(docs) ==
    {[kind |-> k, item_errors |-> 0] : k \in {"send_failed", "http_error", "bad_json"}}
        \cup {[kind |-> "ok", item_errors |-> e] : e \in 0..ValidDocs(docs)}

\* bulk_index_documents: Ok(valid_docs) or Err
BulkIndexDocuments(docs, response) ==
    IF docs = <<>> THEN [ok |-> TRUE, count |-> 0]
    ELSE IF ValidDocs(docs) = 0 THEN [ok |-> TRUE, count |-> 0]
    ELSE IF response.kind = "ok"
         THEN [ok |-> TRUE, count |-> ValidDocs(docs)]
    ELSE [ok |-> FALSE, count |-> 0]

\* main.rs 152: let batch_size = batch.len(), taken before the batch is sent
BatchSize_Committed(i) == ValidDocs(batches[i].docs)

BatchSize(i) == Len(batches[i].docs)

\* the stream hands out the batches in order, one more while below the bound
StartBatch_HoldingLock(i) ==
    /\ status = "running" /\ mpc = "dispatch"
    /\ tpc[i] = "idle"
    /\ \A j \in 1..Len(tpc) : j < i => tpc[j] # "idle"
    /\ Cardinality({j \in 1..Len(tpc) : tpc[j] \notin {"idle", "done"}}) < config.workers
    /\ lock = "free"
    /\ lock' = "task"
    /\ tpc' = [tpc EXCEPT ![i] = "inflight"]
    /\ UNCHANGED <<call_in, call_out, signal_at, csv, config, file, run, status, mpc,
                   checkpoint, loaded, total_records, remaining_records, batches,
                   processed_count, new_total, results, hpc, order, waiters>>

StartBatch(i) ==
    /\ Running /\ mpc = "dispatch"
    /\ tpc[i] = "idle"
    /\ \A j \in Tasks : j < i => tpc[j] # "idle"
    /\ CanStart
    /\ tpc' = [tpc EXCEPT ![i] = "inflight"]
    /\ UNCHANGED <<call_in, call_out, signal_at, csv, config, file, run, status, mpc, checkpoint, loaded,
                   total_records, remaining_records, batches, processed_count,
                   new_total, results, lock, hpc, order, waiters>>

\* main.rs 153-156, 179: the submission returns; on Ok the counter is bumped
BulkReturn(i) ==
    /\ Running /\ mpc = "dispatch"
    /\ tpc[i] = "inflight"
    /\ \E response \in Responses(batches[i].docs) :
        LET r == BulkIndexDocuments(batches[i].docs, response) IN
        IF r.ok
        THEN /\ processed_count' = processed_count + r.count
             /\ new_total' = [new_total EXCEPT ![i] = processed_count + r.count]
             /\ tpc' = [tpc EXCEPT ![i] = "ok_wantlock"]
        ELSE /\ tpc' = [tpc EXCEPT ![i] = "err_wantlock"]
             /\ UNCHANGED <<processed_count, new_total>>
    /\ waiters' = Append(waiters, <<"task", i>>)
    /\ UNCHANGED <<call_in, call_out, signal_at, csv, config, file, run, status, mpc, checkpoint, loaded,
                   total_records, remaining_records, batches, results, lock, hpc, order>>

\* main.rs 160: checkpoint_mutex.lock().await in the success arm
TaskLock(i) ==
    /\ Running /\ mpc = "dispatch"
    /\ tpc[i] = "ok_wantlock"
    /\ LockFree /\ Turn(<<"task", i>>)
    /\ waiters' = Tail(waiters)
    /\ lock' = "task"
    /\ tpc' = [tpc EXCEPT ![i] = "cs_push"]
    /\ UNCHANGED <<call_in, call_out, signal_at, csv, config, file, run, status, mpc, checkpoint, loaded,
                   total_records, remaining_records, batches, processed_count,
                   new_total, results, hpc, order>>

\* main.rs 161 -> checkpoint.rs 56-57
CsPush(i) ==
    /\ Running /\ mpc = "dispatch"
    /\ tpc[i] = "cs_push"
    /\ checkpoint' = PushRange(checkpoint, batches[i].start_index, BatchSize(i))
    /\ tpc' = [tpc EXCEPT ![i] = "cs_processed"]
    /\ UNCHANGED <<call_in, call_out, signal_at, csv, config, file, run, status, mpc, loaded, total_records,
                   remaining_records, batches, processed_count, new_total, results,
                   lock, hpc, order, waiters>>

\* checkpoint.rs 58
CsProcessed(i) ==
    /\ Running /\ mpc = "dispatch"
    /\ tpc[i] = "cs_processed"
    /\ checkpoint' = AddProcessed(checkpoint, BatchSize(i))
    /\ tpc' = [tpc EXCEPT ![i] = "cs_successful"]
    /\ UNCHANGED <<call_in, call_out, signal_at, csv, config, file, run, status, mpc, loaded, total_records,
                   remaining_records, batches, processed_count, new_total, results,
                   lock, hpc, order, waiters>>

\* checkpoint.rs 59
CsSuccessful(i) ==
    /\ Running /\ mpc = "dispatch"
    /\ tpc[i] = "cs_successful"
    /\ checkpoint' = AddSuccessful(checkpoint)
    /\ tpc' = [tpc EXCEPT ![i] = "cs_save"]
    /\ UNCHANGED <<call_in, call_out, signal_at, csv, config, file, run, status, mpc, loaded, total_records,
                   remaining_records, batches, processed_count, new_total, results,
                   lock, hpc, order, waiters>>

\* main.rs 164-169: the conditional save, then the guard goes out of scope;
\* main.rs 171, 177: the future reports next or is finished with Ok
CsRelease(i) ==
    /\ Running /\ mpc = "dispatch"
    /\ tpc[i] = "cs_save"
    /\ IF SaveDue(i - 1, new_total[i])
       THEN \E written \in BOOLEAN : file' = IF written THEN Saved(checkpoint) ELSE file
       ELSE file' = file
    /\ lock' = "free"
    /\ order' = Append(order, i)
    /\ IF ReportDue(new_total[i])
       THEN /\ tpc' = [tpc EXCEPT ![i] = "report_wantlock"]
            /\ waiters' = Append(waiters, <<"task", i>>)
            /\ UNCHANGED results
       ELSE /\ tpc' = [tpc EXCEPT ![i] = "done"]
            /\ results' = [results EXCEPT ![i] = "ok"]
            /\ UNCHANGED waiters
    /\ UNCHANGED <<call_in, call_out, signal_at, csv, config, run, status, mpc, checkpoint, loaded, total_records,
                   remaining_records, batches, processed_count, new_total, hpc>>

\* main.rs 172-177: lock, print the progress line, unlock, Ok(indexed_count)
TaskReport(i) ==
    /\ Running /\ mpc = "dispatch"
    /\ tpc[i] = "report_wantlock"
    /\ LockFree /\ Turn(<<"task", i>>)
    /\ waiters' = Tail(waiters)
    /\ tpc' = [tpc EXCEPT ![i] = "done"]
    /\ results' = [results EXCEPT ![i] = "ok"]
    /\ UNCHANGED <<call_in, call_out, signal_at, csv, config, file, run, status, mpc, checkpoint, loaded,
                   total_records, remaining_records, batches, processed_count,
                   new_total, lock, hpc, order>>

\* main.rs 182: checkpoint_mutex.lock().await in the failure arm
FailLock(i) ==
    /\ Running /\ mpc = "dispatch"
    /\ tpc[i] = "err_wantlock"
    /\ LockFree /\ Turn(<<"task", i>>)
    /\ waiters' = Tail(waiters)
    /\ lock' = "task"
    /\ tpc' = [tpc EXCEPT ![i] = "cs_failed"]
    /\ UNCHANGED <<call_in, call_out, signal_at, csv, config, file, run, status, mpc, checkpoint, loaded,
                   total_records, remaining_records, batches, processed_count,
                   new_total, results, hpc, order>>

\* main.rs 183-186: add_failed_batch, unlock, Err(e)
CsFailed(i) ==
    /\ Running /\ mpc = "dispatch"
    /\ tpc[i] = "cs_failed"
    /\ checkpoint' = AddFailedBatch(checkpoint)
    /\ lock' = "free"
    /\ tpc' = [tpc EXCEPT ![i] = "done"]
    /\ results' = [results EXCEPT ![i] = "err"]
    /\ UNCHANGED <<call_in, call_out, signal_at, csv, config, file, run, status, mpc, loaded, total_records,
                   remaining_records, batches, processed_count, new_total, hpc, order, waiters>>

\* main.rs 192-193: collect() returns once every future has finished
Collect ==
    /\ Running /\ mpc = "dispatch"
    /\ \A i \in Tasks : tpc[i] = "done"
    /\ mpc' = "final"
    /\ waiters' = Append(waiters, <<"main", 0>>)
    /\ UNCHANGED <<call_in, call_out, signal_at, csv, config, file, run, status, checkpoint, loaded, total_records,
                   remaining_records, batches, processed_count, tpc, new_total,
                   results, lock, hpc, order>>

---------------------------------------------------------------------------
(* The final phase of main: src/src/main.rs 200-230 *)

\* the final phase without the drop of main.rs 205
FinalLock_KeepsGuard ==
    /\ Running /\ mpc = "final"
    /\ LockFree /\ Turn(<<"main", 0>>)
    /\ waiters' = Tail(waiters)
    /\ lock' = "main"
    /\ mpc' = IF IsCompleted(checkpoint) THEN "cleanup" ELSE "finalsave"
    /\ UNCHANGED <<call_in, call_out, signal_at, csv, config, file, run, status, checkpoint,
                   loaded, total_records, remaining_records, batches, processed_count,
                   tpc, new_total, results, hpc, order>>

\* main.rs 202-205: lock, is_completed(); when completed the guard is dropped
FinalLock ==
    /\ Running /\ mpc = "final"
    /\ LockFree /\ Turn(<<"main", 0>>)
    /\ waiters' = Tail(waiters)
    /\ IF IsCompleted(checkpoint)
       THEN mpc' = "cleanup" /\ UNCHANGED lock
       ELSE mpc' = "finalsave" /\ lock' = "main"
    /\ UNCHANGED <<call_in, call_out, signal_at, csv, config, file, run, status, checkpoint, loaded, total_records,
                   remaining_records, batches, processed_count, tpc, new_total,
                   results, hpc, order>>

\* main.rs 206: cleanup(csv_file).await?
FinalCleanup ==
    /\ Running /\ mpc = "cleanup"
    /\ \E removed \in BOOLEAN :
        /\ file' = Cleanup(file, removed)
        /\ IF file.exists /\ ~removed
           THEN status' = "error" /\ UNCHANGED <<mpc, waiters>>
           ELSE /\ mpc' = "summary"
                /\ waiters' = Append(waiters, <<"main", 0>>)
                /\ UNCHANGED status
    /\ UNCHANGED <<call_in, call_out, signal_at, csv, config, run, checkpoint, loaded, total_records,
                   remaining_records, batches, processed_count, tpc, new_total,
                   results, lock, hpc, order>>

\* main.rs 209-211: checkpoint.save(csv_file).await? under the guard
FinalSave ==
    /\ Running /\ mpc = "finalsave"
    /\ \E written \in BOOLEAN :
        IF written
        THEN /\ file' = Saved(checkpoint)
             /\ mpc' = "summary"
             /\ waiters' = Append(waiters, <<"main", 0>>)
             /\ UNCHANGED status
        ELSE status' = "error" /\ mpc' = "returned" /\ UNCHANGED <<file, waiters>>
    /\ lock' = "free"
    /\ UNCHANGED <<call_in, call_out, signal_at, csv, config, run, checkpoint, loaded, total_records,
                   remaining_records, batches, processed_count, tpc, new_total,
                   results, hpc, order>>

\* main.rs 213-230: the summary, the locked progress line, Ok(())
Summary ==
    /\ Running /\ mpc = "summary"
    /\ LockFree /\ Turn(<<"main", 0>>)
    /\ waiters' = Tail(waiters)
    /\ status' = "exit0"
    /\ UNCHANGED <<call_in, call_out, signal_at, csv, config, file, run, mpc, checkpoint, loaded, total_records,
                   remaining_records, batches, processed_count, tpc, new_total,
                   results, lock, hpc, order>>

---------------------------------------------------------------------------
(* The shutdown task: src/src/main.rs 134-142 *)

\* main.rs 135: ctrl_c().await completes
Signal ==
    /\ Running /\ hpc = "listening"
    /\ hpc' = "signalled"
    /\ signal_at' = mpc
    /\ waiters' = Append(waiters, <<"shutdown", 0>>)
    /\ UNCHANGED <<call_in, call_out, csv, config, file, run, status, mpc, checkpoint, loaded,
                   total_records, remaining_records, batches, processed_count,
                   tpc, new_total, results, lock, order>>

\* main.rs 137: checkpoint_for_shutdown.lock().await
ShutdownLock ==
    /\ Running /\ hpc = "signalled"
    /\ LockFree /\ Turn(<<"shutdown", 0>>)
    /\ waiters' = Tail(waiters)
    /\ lock' = "shutdown"
    /\ hpc' = "locked"
    /\ UNCHANGED <<call_in, call_out, signal_at, csv, config, file, run, status, mpc, checkpoint, loaded,
                   total_records, remaining_records, batches, processed_count,
                   tpc, new_total, results, order>>

\* main.rs 138-140: save, a failure is only printed
ShutdownSave ==
    /\ Running /\ hpc = "locked"
    /\ \E written \in BOOLEAN :
        IF written
        THEN file' = Saved(checkpoint) /\ hpc' = "saved"
        ELSE file' = file /\ hpc' = "save_failed"
    /\ UNCHANGED <<call_in, call_out, signal_at, csv, config, run, status, mpc, checkpoint, loaded, total_records,
                   remaining_records, batches, processed_count, tpc, new_total,
                   results, lock, order, waiters>>

\* main.rs 141: std::process::exit(1)
ShutdownExit ==
    /\ Running /\ hpc \in {"saved", "save_failed"}
    /\ status' = "exit1"
    /\ UNCHANGED <<call_in, call_out, signal_at, csv, config, file, run, mpc, checkpoint, loaded, total_records,
                   remaining_records, batches, processed_count, tpc, new_total,
                   results, lock, hpc, order, waiters>>

---------------------------------------------------------------------------
(* The operator starts the process again on the same source and artifact *)

Restart ==
    /\ ~Running /\ mpc # "api"
    /\ run < MaxRuns
    /\ run' = run + 1
    /\ status' = "running"
    /\ mpc' = "load"
    /\ checkpoint' = New(CsvFile, 0)
    /\ loaded' = New(CsvFile, 0)
    /\ total_records' = 0
    /\ remaining_records' = 0
    /\ batches' = <<>>
    /\ processed_count' = 0
    /\ tpc' = NoTasks
    /\ new_total' = NoTasks
    /\ results' = NoTasks
    /\ lock' = "free"
    /\ hpc' = "none"
    /\ order' = <<>>
    /\ waiters' = <<>>
    /\ signal_at' = "none"
    /\ UNCHANGED <<call_in, call_out, csv, config, file>>

Next ==
    \/ LoadCheckpoint
    \/ HealthCheck
    \/ ReadCsv
    \/ EarlyExit
    \/ BeginDispatch
    \/ \E i \in Tasks : StartBatch(i)
    \/ \E i \in Tasks : BulkReturn(i)
    \/ \E i \in Tasks : TaskLock(i)
    \/ \E i \in Tasks : CsPush(i)
    \/ \E i \in Tasks : CsProcessed(i)
    \/ \E i \in Tasks : CsSuccessful(i)
    \/ \E i \in Tasks : CsRelease(i)
    \/ \E i \in Tasks : TaskReport(i)
    \/ \E i \in Tasks : FailLock(i)
    \/ \E i \in Tasks : CsFailed(i)
    \/ Collect
    \/ FinalLock
    \/ FinalCleanup
    \/ FinalSave
    \/ Summary
    \/ Signal
    \/ ShutdownLock
    \/ ShutdownSave
    \/ ShutdownExit
    \/ Restart

Spec == Init /\ [][Next]_vars

\* #[tokio::main]: the runtime keeps polling main and the futures inside it,
\* and a submission comes back (the client is built with a request timeout)
MainStep ==
    \/ LoadCheckpoint \/ HealthCheck \/ ReadCsv \/ EarlyExit \/ BeginDispatch
    \/ \E i \in Tasks : StartBatch(i) \/ BulkReturn(i) \/ TaskLock(i) \/ CsPush(i)
                        \/ CsProcessed(i) \/ CsSuccessful(i) \/ CsRelease(i)
                        \/ TaskReport(i) \/ FailLock(i) \/ CsFailed(i)
    \/ Collect \/ FinalLock \/ FinalCleanup \/ FinalSave \/ Summary

\* tokio::spawn: the shutdown task is polled on its own once the signal woke it
ShutdownStep == ShutdownLock \/ ShutdownSave \/ ShutdownExit

\* the process under a scheduler that starves neither task; the signal and
\* the operator's restart may or may not happen
SpecFair == Spec /\ WF_vars(MainStep) /\ WF_vars(ShutdownStep)

---------------------------------------------------------------------------
(* The checkpoint API on its own: any calls, any order, any sizes *)

InitCkpt ==
    /\ csv = [len |-> 0, noId |-> {}]
    /\ config = [batch_size |-> 1, workers |-> 1]
    /\ file = NoFile
    /\ run = 1
    /\ status = "running"
    /\ mpc = "api"
    /\ checkpoint = New(CsvFile, MaxStart)
    /\ loaded = New(CsvFile, 0)
    /\ total_records = 0
    /\ remaining_records = 0
    /\ batches = <<>>
    /\ processed_count = 0
    /\ tpc = NoTasks
    /\ new_total = NoTasks
    /\ results = NoTasks
    /\ lock = "free"
    /\ hpc = "none"
    /\ order = <<>>
    /\ waiters = <<>>
    /\ signal_at = "none"
    /\ call_in = NoCall
    /\ call_out = NoCall

ApiAddCompletedBatch ==
    /\ mpc = "api"
    /\ Len(checkpoint.completed_batch_ranges) < MaxCalls
    /\ \E start_index \in 0..MaxStart, batch_size \in 0..MaxSize :
        checkpoint' = AddCompletedBatch(checkpoint, start_index, batch_size)
    /\ UNCHANGED <<call_in, call_out, signal_at, csv, config, file, run, status, mpc, loaded, total_records,
                   remaining_records, batches, processed_count, tpc, new_total,
                   results, lock, hpc, order, waiters>>

ApiAddFailedBatch ==
    /\ mpc = "api"
    /\ checkpoint.failed_batches < MaxFailed
    /\ checkpoint' = AddFailedBatch(checkpoint)
    /\ UNCHANGED <<call_in, call_out, signal_at, csv, config, file, run, status, mpc, loaded, total_records,
                   remaining_records, batches, processed_count, tpc, new_total,
                   results, lock, hpc, order, waiters>>

NextCkpt == ApiAddCompletedBatch \/ ApiAddFailedBatch

SpecCkpt == InitCkpt /\ [][NextCkpt]_vars

---------------------------------------------------------------------------
(* Reading and planning on their own: any length, batch size and resume point *)

\* main at the CSV read, holding a new checkpoint or a loaded one whose
\* ranges cover [0, resume_point)
InitPlan ==
    /\ csv \in [len : 0..MaxPlanRecords, noId : {{}}]
    /\ config \in [batch_size : 1..MaxPlanBatch, workers : {1}]
    /\ file = NoFile
    /\ run = 1
    /\ status = "running"
    /\ mpc = "read"
    /\ \E resume_point \in 0..csv.len :
        checkpoint = IF resume_point = 0
                     THEN New(CsvFile, 0)
                     ELSE AddCompletedBatch(New(CsvFile, csv.len), 0, resume_point)
    /\ loaded = New(CsvFile, 0)
    /\ total_records = 0
    /\ remaining_records = 0
    /\ batches = <<>>
    /\ processed_count = 0
    /\ tpc = NoTasks
    /\ new_total = NoTasks
    /\ results = NoTasks
    /\ lock = "free"
    /\ hpc = "none"
    /\ order = <<>>
    /\ waiters = <<>>
    /\ signal_at = "none"
    /\ call_in = NoCall
    /\ call_out = NoCall

NextPlan == ReadCsv

SpecPlan == InitPlan /\ [][NextPlan]_vars

---------------------------------------------------------------------------
(* bulk_index_documents on its own: any documents, any response *)

\* the caller holds a batch of the rows 0..len-1, some without token_id, and
\* the store will answer with call_in.response
InitBulk ==
    /\ csv \in [len : 0..MaxBulkDocs, noId : SUBSET (0..(MaxBulkDocs - 1))]
    /\ csv.noId \subseteq 0..(csv.len - 1)
    /\ config = [batch_size |-> 1, workers |-> 1]
    /\ file = NoFile
    /\ run = 1
    /\ status = "running"
    /\ mpc = "bulk_call"
    /\ checkpoint = New(CsvFile, 0)
    /\ loaded = New(CsvFile, 0)
    /\ total_records = 0
    /\ remaining_records = 0
    /\ batches = <<>>
    /\ processed_count = 0
    /\ tpc = NoTasks
    /\ new_total = NoTasks
    /\ results = NoTasks
    /\ lock = "free"
    /\ hpc = "none"
    /\ order = <<>>
    /\ waiters = <<>>
    /\ signal_at = "none"
    /\ \E response \in Responses([k \in 1..csv.len |-> k - 1]) :
        call_in = [docs |-> [k \in 1..csv.len |-> k - 1], response |-> response]
    /\ call_out = NoCall

ApiBulkIndexDocuments ==
    /\ mpc = "bulk_call"
    /\ call_out' = BulkIndexDocuments(call_in.docs, call_in.response)
    /\ mpc' = "bulk_returned"
    /\ UNCHANGED <<call_in, csv, config, file, run, status, checkpoint, loaded,
                   total_records, remaining_records, batches, processed_count, tpc,
                   new_total, results, lock, hpc, order, waiters, signal_at>>

NextBulk == ApiBulkIndexDocuments

SpecBulk == InitBulk /\ [][NextBulk]_vars

---------------------------------------------------------------------------
(* FlexibleElasticsearchDocument::from_record, the extracted fields:       *)
(* src/src/models_flexible.rs 162-176, src/src/collection_config.rs 233-287 *)

MaxFields == 2

\* a serde_json::Value: an integer as_i64 can return, a string (a sequence
\* of characters), or anything else (null, bool, float, array, object)
IntVal(n) == [t |-> "int", n |-> n, s |-> <<>>]
StrVal(s) == [t |-> "str", n |-> 0, s |-> s]
OtherVal == [t |-> "other", n |-> 0, s |-> <<>>]

NoneValue == [some |-> FALSE, v |-> OtherVal]
SomeValue(v) == [some |-> TRUE, v |-> v]

Digits == <<"0", "1", "2", "3", "4", "5", "6", "7", "8", "9">>
IsDigit(c) == \E d \in 1..10 : Digits[d] = c
DigitValue(c) == (CHOOSE d \in 1..10 : Digits[d] = c) - 1

\* the value of a digit string, most significant digit first
RECURSIVE DecimalValue(_, _)
DecimalValue(s, acc) ==
    IF s = <<>> THEN acc ELSE DecimalValue(Tail(s), acc * 10 + DigitValue(Head(s)))

\* str::parse::<i64>: an optional sign, then one or more digits, nothing else
\* (the strings of the model are far too short to overflow an i64)
ParseI64(s) ==
    LET signed == s # <<>> /\ Head(s) \in {"-", "+"}
        body == IF signed THEN Tail(s) ELSE s
        ok == body # <<>> /\ \A k \in 1..Len(body) : IsDigit(body[k])
    IN [ok |-> ok,
        n |-> IF ~ok THEN 0
              ELSE IF signed /\ Head(s) = "-" THEN 0 - DecimalValue(body, 0)
              ELSE DecimalValue(body, 0)]

\* i64::to_string
RECURSIVE DecimalDigits(_)
DecimalDigits(n) ==
    IF n < 10 THEN <<Digits[n + 1]>>
    ELSE Append(DecimalDigits(n \div 10), Digits[(n % 10) + 1])

I64ToString(n) == IF n < 0 THEN <<"-">> \o DecimalDigits(0 - n) ELSE DecimalDigits(n)

\* str::to_lowercase over the letters of the model
LowerTable == [A |-> "a", B |-> "b", C |-> "c"]
ToLowercase(s) ==
    [k \in 1..Len(s) |-> IF s[k] \in DOMAIN LowerTable THEN LowerTable[s[k]] ELSE s[k]]

ExtractTypedValue_KeepCase(value, field_type) ==
    CASE field_type = "Integer" ->
            IF value.t = "int" THEN SomeValue(IntVal(value.n))
            ELSE IF value.t = "str" /\ ParseI64(value.s).ok
                 THEN SomeValue(IntVal(ParseI64(value.s).n))
            ELSE NoneValue
      [] OTHER ->
            IF value.t = "str" THEN SomeValue(StrVal(value.s))
            ELSE IF value.t = "int" THEN SomeValue(StrVal(I64ToString(value.n)))
            ELSE NoneValue

\* extract_typed_value, collection_config.rs 233-268
ExtractTypedValue(value, field_type) ==
    CASE field_type = "Integer" ->
            IF value.t = "int" THEN SomeValue(IntVal(value.n))
            ELSE IF value.t = "str" /\ ParseI64(value.s).ok
                 THEN SomeValue(IntVal(ParseI64(value.s).n))
            ELSE NoneValue
      [] field_type = "Keyword" ->
            IF value.t = "str" THEN SomeValue(StrVal(ToLowercase(value.s)))
            ELSE IF value.t = "int" THEN SomeValue(StrVal(ToLowercase(I64ToString(value.n))))
            ELSE NoneValue
      [] field_type = "Text" ->
            IF value.t = "str" THEN SomeValue(StrVal(value.s))
            ELSE IF value.t = "int" THEN SomeValue(StrVal(I64ToString(value.n)))
            ELSE NoneValue

\* Map::insert: a new key is added, an existing key gets the new value
Insert(map, key, value) ==
    [k \in DOMAIN map \cup {key} |-> IF k = key THEN value ELSE map[k]]

EmptyMap == [k \in {} |-> OtherVal]

RECURSIVE ExtractFrom(_, _, _)
ExtractFrom(properties, fields, extracted) ==
    IF fields = <<>> THEN extracted
    ELSE LET field == Head(fields)
             typed == IF field.source_key \in DOMAIN properties
                      THEN ExtractTypedValue(properties[field.source_key], field.field_type)
                      ELSE NoneValue
         IN ExtractFrom(properties, Tail(fields),
                        IF typed.some THEN Insert(extracted, field.name, typed.v)
                        ELSE extracted)

ExtractCollectionFields_BySourceKey(properties, cfg) ==
    ExtractFrom(properties,
                [k \in 1..Len(cfg.extracted_fields) |->
                    [cfg.extracted_fields[k] EXCEPT
                        !.name = cfg.extracted_fields[k].source_key]],
                EmptyMap)

\* extract_collection_fields, collection_config.rs 271-287
ExtractCollectionFields(properties, cfg) ==
    ExtractFrom(properties, cfg.extracted_fields, EmptyMap)

\* from_record, models_flexible.rs 162-176: the extracted_fields of the document
FromRecord(raw_metadata, cfg) ==
    LET properties == IF raw_metadata.parsed
                      THEN raw_metadata.properties
                      ELSE [some |-> FALSE, map |-> EmptyMap]
    IN IF properties.some /\ cfg.some
       THEN ExtractCollectionFields(properties.map, cfg)
       ELSE EmptyMap

\* the values, keys and configurations from_record is called with
SampleStrings ==
    {<<>>, <<"7">>, <<"-", "7">>, <<"+", "1", "0">>, <<"7", "A">>, <<"-">>,
     <<"A", "b">>, <<"a", "b">>}
SampleValues == {IntVal(5), IntVal(0 - 12), OtherVal} \cup {StrVal(s) : s \in SampleStrings}
SourceKeys == {"tier", "type"}
FieldNames == {"tier", "nft_type"}
FieldTypes == {"Integer", "Keyword", "Text"}
ExtractedFields == [name : FieldNames, field_type : FieldTypes, source_key : SourceKeys]
FieldLists == UNION {[1..n -> ExtractedFields] : n \in 0..MaxFields}
PropertyMaps == UNION {[keys -> SampleValues] : keys \in SUBSET SourceKeys}

\* the caller holds a record whose raw_metadata does not parse, parses
\* without properties or parses with properties, and a config or none
InitDoc ==
    /\ csv = [len |-> 1, noId |-> {}]
    /\ config = [batch_size |-> 1, workers |-> 1]
    /\ file = NoFile
    /\ run = 1
    /\ status = "running"
    /\ mpc = "doc_call"
    /\ checkpoint = New(CsvFile, 0)
    /\ loaded = New(CsvFile, 0)
    /\ total_records = 0
    /\ remaining_records = 0
    /\ batches = <<>>
    /\ processed_count = 0
    /\ tpc = NoTasks
    /\ new_total = NoTasks
    /\ results = NoTasks
    /\ lock = "free"
    /\ hpc = "none"
    /\ order = <<>>
    /\ waiters = <<>>
    /\ signal_at = "none"
    /\ \E parsed \in BOOLEAN, has_properties \in BOOLEAN, has_config \in BOOLEAN :
       \E map \in IF parsed /\ has_properties THEN PropertyMaps ELSE {EmptyMap} :
       \E fields \in IF has_config THEN FieldLists ELSE {<<>>} :
            call_in = [raw_metadata |-> [parsed |-> parsed,
                                         properties |-> [some |-> parsed /\ has_properties,
                                                         map |-> map]],
                       config |-> [some |-> has_config, extracted_fields |-> fields]]
    /\ call_out = NoCall

ApiFromRecord ==
    /\ mpc = "doc_call"
    /\ call_out' = FromRecord(call_in.raw_metadata, call_in.config)
    /\ mpc' = "doc_returned"
    /\ UNCHANGED <<call_in, csv, config, file, run, status, checkpoint, loaded,
                   total_records, remaining_records, batches, processed_count, tpc,
                   new_total, results, lock, hpc, order, waiters, signal_at>>

NextDoc == ApiFromRecord

SpecDoc == InitDoc /\ [][NextDoc]_vars

---------------------------------------------------------------------------
(* Vocabulary of the properties *)

MaxIndex == MaxStart + MaxSize + MaxRecords

Ranges == checkpoint.completed_batch_ranges

\* index i lies inside at least one of the ranges
Covered(ranges, i) == \E k \in 1..Len(ranges) : ranges[k][1] <= i /\ i < ranges[k][2]

\* how many of the ranges hold index i
CoverCount(ranges, i) ==
    Cardinality({k \in 1..Len(ranges) : ranges[k][1] <= i /\ i < ranges[k][2]})

\* the ranges lie in [0, k) and every index of [0, k) is in exactly one of them
TilesExactly(ranges, k) ==
    /\ \A j \in 1..Len(ranges) : ranges[j][2] <= k
    /\ \A i \in 0..(k - 1) : CoverCount(ranges, i) = 1

\* the first index no range holds: the end of the covered prefix from zero
CoveredPrefix(ranges) ==
    CHOOSE f \in 0..MaxIndex :
        /\ ~Covered(ranges, f)
        /\ \A i \in 0..(f - 1) : Covered(ranges, i)

---------------------------------------------------------------------------
(* The resume point, under SpecCkpt *)

\* C1: after any calls of add_completed_batch and add_failed_batch, every
\* index below get_safe_resume_point() lies inside a completed range.
C1_ResumePointSound ==
    \A i \in 0..(GetSafeResumePoint(checkpoint) - 1) : Covered(Ranges, i)

\* C1's case: a failure was recorded, a range lies beyond a gap, and the
\* resume point stays at the gap
C1_Witness ==
    /\ mpc = "api"
    /\ checkpoint.failed_batches > 0
    /\ GetSafeResumePoint(checkpoint) = 1
    /\ \E k \in 1..Len(Ranges) : Ranges[k][1] > 1
    /\ ~Covered(Ranges, 1)

\* C3: ranges that tile [0, k) exactly give the resume point k, whatever the
\* order they were added in.
C3_TiledRangesGiveK ==
    \A k \in 0..MaxIndex : TilesExactly(Ranges, k) => GetSafeResumePoint(checkpoint) = k

\* C3's case: three ranges tiling [0, 3), the one starting at zero added last
C3_Witness ==
    /\ mpc = "api"
    /\ Len(Ranges) = 3
    /\ TilesExactly(Ranges, 3)
    /\ Ranges[3][1] = 0
    /\ Ranges[1][1] > Ranges[2][1]
    /\ GetSafeResumePoint(checkpoint) = 3

\* C4: when the ranges starting at or below g tile [0, g) exactly and all the
\* others start above g, the resume point is g.
C4_GapBlocksFrontier ==
    \A g \in 0..MaxIndex :
        LET low == SelectSeq(Ranges, LAMBDA r : r[1] <= g)
            high == SelectSeq(Ranges, LAMBDA r : r[1] > g)
        IN (TilesExactly(low, g) /\ high # <<>>) => GetSafeResumePoint(checkpoint) = g

\* C4's case: two ranges beyond the gap were added before the range [0, 1)
C4_Witness ==
    /\ mpc = "api"
    /\ Len(Ranges) = 3
    /\ Ranges[1][1] > 1 /\ Ranges[1][2] > Ranges[1][1]
    /\ Ranges[2][1] > 1 /\ Ranges[2][2] > Ranges[2][1]
    /\ Ranges[3] = <<0, 1>>
    /\ GetSafeResumePoint(checkpoint) = 1

\* C5: for any ranges, overlapping and same-start ones included, the resume
\* point is the largest f such that the ranges cover every index below f.
C5_ResumePointMaximal ==
    GetSafeResumePoint(checkpoint) = CoveredPrefix(Ranges)

---------------------------------------------------------------------------
(* The process, under Spec *)

\* the futures inside a checkpoint critical section
InUpdate == {i \in Tasks : tpc[i] \in {"cs_push", "cs_processed", "cs_successful",
                                      "cs_save", "cs_failed"}}

\* the submissions started and not yet returned
InFlight == {i \in Tasks : tpc[i] = "inflight"}

\* every holder of a guard of checkpoint_mutex
Holders ==
    {<<"task", i>> : i \in InUpdate}
        \cup (IF hpc \in {"locked", "saved", "save_failed"} THEN {<<"shutdown", 0>>} ELSE {})
        \cup (IF mpc = "finalsave" THEN {<<"main", 0>>} ELSE {})

RECURSIVE SumSizes(_)
SumSizes(ranges) ==
    IF ranges = <<>> THEN 0
    ELSE (Head(ranges)[2] - Head(ranges)[1]) + SumSizes(Tail(ranges))

\* a checkpoint between complete operations: counters agree with the ranges
Consistent(c) ==
    /\ c.processed_records = SumSizes(c.completed_batch_ranges)
    /\ c.successful_batches = Len(c.completed_batch_ranges)

\* the checkpoint after the updates of the futures in ord, applied to c
RECURSIVE Replay(_, _)
Replay(c, ord) ==
    IF ord = <<>> THEN c
    ELSE Replay(AddCompletedBatch(c, batches[Head(ord)].start_index,
                                  Len(batches[Head(ord)].docs)),
                Tail(ord))

\* the process has ended, by return or by exit(1), after dispatch began
RunEnded == status # "running" /\ Len(tpc) > 0

\* C2: when a run ends normally with the artifact removed, the resume point
\* is total_records; and a run that ends normally with the resume point
\* below total_records leaves the artifact holding the final checkpoint.
C2_RemovedOnlyWhenComplete ==
    status = "exit0" =>
        /\ ~file.exists => GetSafeResumePoint(checkpoint) = checkpoint.total_records
        /\ GetSafeResumePoint(checkpoint) < checkpoint.total_records
               => file = Saved(checkpoint)

\* C6 as stated: at the end of a run, the resume point is at most the start
\* index of every batch that failed in that run.
C6_FailedBatchBlocksResume ==
    RunEnded =>
        \A i \in Tasks :
            results[i] = "err" => GetSafeResumePoint(checkpoint) <= batches[i].start_index

\* C6 amended: at the end of a run, the resume point is at most the start
\* index of every batch that failed in that run and whose start index lies in
\* no range of the checkpoint the run started from.
C6_FailedBatchBlocksResumeUnlessLoaded ==
    RunEnded =>
        \A i \in Tasks :
            (results[i] = "err"
                /\ ~Covered(loaded.completed_batch_ranges, batches[i].start_index))
            => GetSafeResumePoint(checkpoint) <= batches[i].start_index

\* C6's case: a resumed run whose loaded checkpoint holds a range beyond the
\* gap ends with a failed batch at the gap and a later batch completed
C6_Witness ==
    /\ RunEnded
    /\ run = 2
    /\ \E k \in 1..Len(loaded.completed_batch_ranges) :
           loaded.completed_batch_ranges[k][1] > GetSafeResumePoint(loaded)
    /\ \E i, j \in Tasks :
        /\ i < j
        /\ results[i] = "err" /\ results[j] = "ok"
        /\ ~Covered(loaded.completed_batch_ranges, batches[i].start_index)
        /\ GetSafeResumePoint(checkpoint) = batches[i].start_index

\* what the shutdown task must have written: the loaded checkpoint plus the
\* updates finished so far, plus one failure per future finished with Err
ExpectedAtShutdown ==
    [Replay(loaded, order) EXCEPT
        !.failed_batches = loaded.failed_batches
            + Cardinality({i \in Tasks : tpc[i] = "done" /\ results[i] = "err"})]

\* C7: once the shutdown task has saved, the artifact holds the checkpoint the
\* run started from plus exactly the updates whose critical section finished
\* before the task took the lock; a future still in flight or waiting for the
\* lock is recorded neither as completed nor as failed; and the checkpoint
\* does not change after that save.  (Only the cleanup of a main that was
\* already past the dispatcher can still remove the artifact.)
C7_ShutdownSavesFinishedUpdates ==
    hpc = "saved" =>
        /\ \/ file = Saved(ExpectedAtShutdown)
           \/ ~file.exists /\ mpc = "summary" /\ IsCompleted(checkpoint)
        /\ checkpoint = ExpectedAtShutdown
        /\ InUpdate = {}
        /\ \A i \in Tasks :
            tpc[i] \in {"inflight", "ok_wantlock", "err_wantlock"} =>
                /\ results[i] = "none"
                /\ \A k \in 1..Len(order) : order[k] # i

\* C7's case: the process exited through the shutdown task after one update
\* finished, with one future that had bumped the counter still waiting for
\* the lock and another still in flight
C7_Witness ==
    /\ status = "exit1" /\ hpc = "saved"
    /\ Len(order) = 1
    /\ \E i, j \in Tasks : tpc[i] = "ok_wantlock" /\ new_total[i] > 0 /\ tpc[j] = "inflight"

\* C8: processed_records never exceeds a known total_records, so
\* progress_percentage() stays within 0..100.
C8_ProgressWithinBounds ==
    /\ checkpoint.total_records > 0
           => checkpoint.processed_records <= checkpoint.total_records
    /\ ProgressPercentage(checkpoint) \in 0..100

\* C9: at most `workers` submissions are in flight, and at most `workers`
\* futures are started and unfinished.
C9_InFlightBounded ==
    /\ Cardinality(InFlight) <= config.workers
    /\ Cardinality(Active) <= config.workers

\* C9's case: the bound is reached while a batch still waits to be started
C9_Witness ==
    /\ config.workers = 2
    /\ Cardinality(InFlight) = 2
    /\ \E i \in Tasks : tpc[i] = "idle"

\* C10: at most one guard of the mutex is alive, the mutex is held exactly
\* while a guard is alive, and the artifact only ever holds a checkpoint
\* whose counters agree with its ranges.
C10_UpdatesLinearized ==
    /\ Cardinality(Holders) <= 1
    /\ (lock = "free") <=> (Holders = {})
    /\ file.valid => Consistent(FromJson(file.json))

\* C10's case: a future is in the middle of its update (range pushed, counters
\* not yet bumped) while the shutdown task and another future wait for the lock
C10_Witness ==
    /\ \E i, j \in Tasks : tpc[i] = "cs_processed" /\ tpc[j] = "ok_wantlock"
    /\ ~Consistent(checkpoint)
    /\ hpc = "signalled"
    /\ file.valid

---------------------------------------------------------------------------
(* Claims about the dispatcher, the shutdown task and whole runs *)

Finished(i) == tpc[i] = "done" /\ results[i] \in {"ok", "err"}

Outcomes(kind) == Cardinality({i \in Tasks : results[i] = kind})

\* C11: an uninterrupted dispatch, every submission of which returns, comes to
\* its end; by then every planned batch has been started once and has exactly
\* one outcome, the checkpoint's successful_batches and failed_batches have
\* grown by the number of Ok and Err results, together by the number of
\* batches, and no future goes back to being unstarted or in flight.
C11_EveryBatchGetsOneOutcome ==
    /\ [](mpc = "final" =>
            /\ \A i \in Tasks : Finished(i)
            /\ Len(tpc) = Len(batches)
            /\ checkpoint.successful_batches - loaded.successful_batches = Outcomes("ok")
            /\ checkpoint.failed_batches - loaded.failed_batches = Outcomes("err")
            /\ Outcomes("ok") + Outcomes("err") = Len(batches))
    /\ [][(mpc = "dispatch" /\ mpc' = "dispatch") =>
            \A i \in Tasks :
                /\ tpc[i] # "idle" => tpc'[i] # "idle"
                /\ tpc[i] \notin {"idle", "inflight"} => tpc'[i] # "inflight"]_vars
    /\ (mpc = "dispatch" /\ hpc = "listening") ~> (mpc = "final" \/ hpc # "listening")

\* the dispatch ended uninterrupted, an earlier batch failed and a later one succeeded
C11_Witness ==
    /\ mpc = "final" /\ hpc = "listening" /\ Len(batches) = 3
    /\ results[1] = "err" /\ results[2] = "ok" /\ results[3] = "err"

\* the shutdown task received the signal while the dispatcher was running
SignalledInDispatch == signal_at = "dispatch"

FreshRun ==
    IF Len(tpc) = 0
    THEN checkpoint = New(CsvFile, csv.len)
    ELSE loaded = New(CsvFile, csv.len)

\* main has returned (Ok or Err) from the planning or the final phase
MainReturned == status \in {"exit0", "error"} /\ mpc \in {"planned", "cleanup", "summary", "returned"}

\* cleanup(csv_file).await? came back with an error
RemovalFailed == status = "error" /\ mpc \in {"planned", "cleanup"}

PlannedRecords == UNION {{batches[k].docs[d] : d \in 1..Len(batches[k].docs)} : k \in 1..Len(batches)}

\* the only failed batch of the run that ended, with succeeded batches below and above it
OnlyFailure(i) ==
    /\ results[i] = "err"
    /\ \A j \in Tasks \ {i} : results[j] = "ok"
    /\ \E j \in Tasks : j < i
    /\ \E j \in Tasks : j > i

\* C14: when a run ends normally with one failed batch [s, s+b), never
\* committed before, between succeeded batches, the artifact it leaves loads
\* as a checkpoint whose resume point is s; and a run plans exactly the rows
\* from the resume point of the checkpoint it loaded onwards.
C14_ResumesAtFailedBatch ==
    /\ \A i \in Tasks :
        (/\ status = "exit0" /\ OnlyFailure(i)
         /\ ~Covered(loaded.completed_batch_ranges, batches[i].start_index))
        => /\ Load(file, CsvFile).some
           /\ GetSafeResumePoint(Load(file, CsvFile).cp) = batches[i].start_index
    /\ mpc = "planned" =>
        PlannedRecords = {r \in 0..(csv.len - 1) : r >= GetSafeResumePoint(checkpoint)}

---------------------------------------------------------------------------
(* Claims about the checkpoint's update operations *)

\* C15: a call of add_completed_batch(start_index, batch_size) puts exactly
\* (start_index, start_index + batch_size) at the end of the ranges, adds
\* batch_size to processed_records and one to successful_batches, and leaves
\* failed_batches, total_records and csv_file_path alone, whatever ranges are
\* already there.
C15_AddCompletedBatchAppendsAndCounts ==
    [][Ranges' # Ranges =>
        \E start_index \in 0..MaxStart, batch_size \in 0..MaxSize :
            checkpoint' =
                [checkpoint EXCEPT
                    !.completed_batch_ranges =
                        Append(@, <<start_index, start_index + batch_size>>),
                    !.processed_records = @ + batch_size,
                    !.successful_batches = @ + 1]]_vars

\* the same range added twice is held twice and counted twice
C15_Witness ==
    /\ mpc = "api"
    /\ Ranges = <<<<0, 2>>, <<1, 2>>, <<0, 2>>>>
    /\ checkpoint.processed_records = 5
    /\ checkpoint.successful_batches = 3

\* C16: add_failed_batch adds one to failed_batches and leaves the ranges,
\* processed_records, successful_batches, total_records and so the resume
\* point as they were; at the end of the dispatch the run has added one range
\* per Ok result and none for an Err result.
C16_FailedBatchOnlyCounted ==
    /\ [][(/\ mpc = "dispatch" /\ mpc' = "dispatch"
           /\ checkpoint'.failed_batches # checkpoint.failed_batches)
          => /\ checkpoint' = [checkpoint EXCEPT !.failed_batches = @ + 1]
             /\ GetSafeResumePoint(checkpoint') = GetSafeResumePoint(checkpoint)]_vars
    /\ [](mpc = "final" =>
            /\ Len(Ranges) = Len(loaded.completed_batch_ranges) + Outcomes("ok")
            /\ checkpoint.failed_batches = loaded.failed_batches + Outcomes("err"))

\* a batch failed after another one had been recorded: it is counted, its
\* range is not among the ranges
C16_Witness ==
    /\ mpc = "dispatch"
    /\ \E i \in Tasks :
        /\ results[i] = "err"
        /\ ~Covered(Ranges, batches[i].start_index)
    /\ checkpoint.failed_batches = loaded.failed_batches + 1
    /\ Len(Ranges) > Len(loaded.completed_batch_ranges)

\* the futures whose submission came back Ok
OkReturned ==
    {i \in Tasks : \/ tpc[i] \in {"ok_wantlock", "cs_push", "cs_processed", "cs_successful",
                                   "cs_save", "report_wantlock"}
                   \/ results[i] = "ok"}

\* the futures inside the update of the success arm
InSuccessUpdate == {i \in Tasks : tpc[i] \in {"cs_push", "cs_processed", "cs_successful", "cs_save"}}

RECURSIVE SumCommitted(_)
SumCommitted(S) ==
    IF S = {} THEN 0
    ELSE LET i == CHOOSE x \in S : TRUE
         IN ValidDocs(batches[i].docs) + SumCommitted(S \ {i})

\* C17: between updates, the ranges and processed_records are those of the
\* loaded checkpoint plus, for every succeeded batch in the order of the
\* updates, the range [start_index, start_index + number of documents of the
\* batch) and that number of documents, whatever count the submission
\* returned; processed_count alone is the sum of the returned counts.
C17_RangeUsesBatchSize ==
    (Len(tpc) > 0 /\ InSuccessUpdate = {}) =>
        /\ Ranges = Replay(loaded, order).completed_batch_ranges
        /\ checkpoint.processed_records = Replay(loaded, order).processed_records
        /\ processed_count = SumCommitted(OkReturned)

\* a batch of two documents, one without token_id: the submission returned 1,
\* the range of two is recorded; and one of no valid document at all
C17_Witness ==
    /\ Len(tpc) > 0 /\ InSuccessUpdate = {}
    /\ \E i \in Tasks :
        /\ results[i] = "ok"
        /\ Len(batches[i].docs) = 2 /\ ValidDocs(batches[i].docs) = 1
        /\ Ranges = Append(loaded.completed_batch_ranges,
                           <<batches[i].start_index, batches[i].start_index + 2>>)
        /\ checkpoint.processed_records = loaded.processed_records + 2
        /\ processed_count = 1

---------------------------------------------------------------------------
(* Claims about the batch plan *)

BatchLen(k) == Len(batches[k].docs)

BatchEnd(k) == batches[k].start_index + BatchLen(k)

RECURSIVE SumBatchLen(_)
SumBatchLen(k) == IF k = 0 THEN 0 ELSE BatchLen(k) + SumBatchLen(k - 1)

CeilDiv(n, b) == (n + b - 1) \div b

\* the docs of batch k are the rows start_index, start_index + 1, ... in order
RowsInOrder(k) ==
    \A d \in 1..BatchLen(k) : batches[k].docs[d] = batches[k].start_index + d - 1

\* C18: planned from resume point 0, N rows with batch size B give exactly
\* ceil(N/B) batches, the k-th starting at (k-1)*B, each of B rows except
\* that the last may be shorter (never empty), with sizes adding up to N and
\* every batch ending where the next one starts.
C18_PlanFromZero ==
    (mpc = "planned" /\ GetSafeResumePoint(checkpoint) = 0) =>
        /\ Len(batches) = CeilDiv(csv.len, config.batch_size)
        /\ SumBatchLen(Len(batches)) = csv.len
        /\ \A k \in 1..Len(batches) :
            /\ batches[k].start_index = (k - 1) * config.batch_size
            /\ RowsInOrder(k)
            /\ k < Len(batches) => BatchLen(k) = config.batch_size
            /\ k = Len(batches) => BatchLen(k) \in 1..config.batch_size
            /\ k < Len(batches) => BatchEnd(k) = batches[k + 1].start_index

\* five rows in batches of two: three batches, the last of one row
C18_Witness ==
    /\ mpc = "planned" /\ GetSafeResumePoint(checkpoint) = 0
    /\ csv.len = 5 /\ config.batch_size = 2
    /\ Len(batches) = 3 /\ BatchLen(3) = 1 /\ batches[3].start_index = 4

\* C19: planned from a resume point R with 0 < R < N, the batches hold
\* exactly the rows R..N-1: the first batch starts at R, every batch ends
\* where the next one starts, the last ends at N, and no row below R is in
\* any batch.
C19_PlanFromResumePoint ==
    LET R == GetSafeResumePoint(checkpoint) IN
    (mpc = "planned" /\ 0 < R /\ R < csv.len) =>
        /\ Len(batches) > 0
        /\ batches[1].start_index = R
        /\ BatchEnd(Len(batches)) = csv.len
        /\ \A k \in 1..Len(batches) :
            /\ RowsInOrder(k)
            /\ BatchLen(k) > 0
            /\ k < Len(batches) => BatchEnd(k) = batches[k + 1].start_index
        /\ PlannedRecords = R..(csv.len - 1)
        /\ remaining_records = csv.len - R

\* six rows resumed from row 3 in batches of two: [3,5) and [5,6)
C19_Witness ==
    /\ mpc = "planned" /\ GetSafeResumePoint(checkpoint) = 3
    /\ csv.len = 6 /\ config.batch_size = 2
    /\ Len(batches) = 2 /\ batches[1].start_index = 3 /\ batches[2].docs = <<5>>

---------------------------------------------------------------------------
(* Claims about the periodic save *)

\* the future of batch i leaves the critical section of its update
UpdateEnds(i) ==
    /\ mpc = "dispatch" /\ mpc' = "dispatch"
    /\ tpc[i] \in {"cs_save", "cs_failed"}
    /\ tpc'[i] \notin {"cs_save", "cs_failed"}

\* the count the batch added took processed_count past a multiple of the
\* record interval
CrossesRecordInterval(i) ==
    tpc[i] = "cs_save"
    /\ new_total[i] \div RecordInterval
         > (new_total[i] - ValidDocs(batches[i].docs)) \div RecordInterval

\* C20: when the update of a batch ends whose sequence number is a multiple
\* of the batch interval, or whose count took processed_count past a
\* multiple of the record interval, the artifact holds the checkpoint as
\* that update left it at the moment the lock is released.
C20_DueUpdateIsPersisted ==
    [][\A i \in Tasks :
        (UpdateEnds(i) /\ ((i - 1) % BatchInterval = 0 \/ CrossesRecordInterval(i)))
        => file' = Saved(checkpoint')]_vars

---------------------------------------------------------------------------
(* Claims about failures of the environment *)

\* C21: a save that fails changes nothing but the log: the checkpoint in
\* memory stays as it is, the process keeps running, and main goes on (the
\* futures to their result, the final phase to the summary).
C21_SaveFailureOnlyLogged ==
    /\ [][(\E i \in Tasks : tpc[i] = "cs_save" /\ mpc = "dispatch" /\ mpc' = "dispatch"
                            /\ tpc'[i] # "cs_save")
          => checkpoint' = checkpoint /\ status' = "running"]_vars
    /\ [][mpc = "finalsave" /\ mpc' # "finalsave"
          => checkpoint' = checkpoint /\ status' = "running" /\ mpc' = "summary"]_vars

\* the request was sent and the store answered 2xx with a decodable body
AnsweredOk ==
    /\ mpc = "bulk_returned"
    /\ ValidDocs(call_in.docs) > 0
    /\ call_in.response.kind = "ok"

\* C22: when the store accepts the request as a whole, the submission is Ok
\* whatever the items report, and the count it returns is the number of
\* documents sent minus the number of documents the items report an error
\* for.
C22_CountExcludesRejected ==
    AnsweredOk =>
        /\ call_out.ok
        /\ call_out.count = ValidDocs(call_in.docs) - call_in.response.item_errors

---------------------------------------------------------------------------
(* Claims about the lock and the counters *)

Waiting(who) == \E k \in 1..Len(waiters) : waiters[k] = who

\* C23: whenever a per-batch future holds the checkpoint lock it is inside
\* its update (push, counters, optional save) and no other future is; a
\* future whose submission is outstanding neither holds the lock nor waits
\* for it; a future gets the lock only after its submission has returned and
\* gives it up at the end of its update.
C23_NoLockAcrossSubmission ==
    /\ [](lock = "task" => Cardinality(InUpdate) = 1)
    /\ [](\A i \in InFlight : <<"task", i>> \notin Holders /\ ~Waiting(<<"task", i>>))
    /\ [][(lock # "task" /\ lock' = "task" /\ mpc' = "dispatch")
          => \E i \in Tasks : /\ tpc[i] \in {"ok_wantlock", "err_wantlock"}
                              /\ tpc'[i] \in {"cs_push", "cs_failed"}]_vars
    /\ [][(lock = "task" /\ lock' # "task" /\ mpc' = "dispatch")
          => \E i \in Tasks : /\ tpc[i] \in {"cs_save", "cs_failed"}
                              /\ tpc'[i] \in {"done", "report_wantlock"}]_vars

\* one future is at the save of its update while another one's submission is
\* outstanding
C23_Witness ==
    /\ lock = "task"
    /\ \E i \in Tasks : tpc[i] = "cs_save"
    /\ InFlight # {}

IsPrefix(s, t) == Len(s) <= Len(t) /\ \A k \in 1..Len(s) : s[k] = t[k]

\* C24: no step of a run (load, update of a succeeded or failed batch, save
\* by a future, by the shutdown task or by the final phase) lowers
\* processed_records, successful_batches or failed_batches, and the ranges
\* before the step are a prefix of the ranges after it.
C24_CountersGrowRangesAppend ==
    [][run' = run =>
        /\ checkpoint'.processed_records >= checkpoint.processed_records
        /\ checkpoint'.successful_batches >= checkpoint.successful_batches
        /\ checkpoint'.failed_batches >= checkpoint.failed_batches
        /\ IsPrefix(Ranges, Ranges')]_vars

\* a resumed run has added a range behind the loaded ones and counted a failure
C24_Witness ==
    /\ run = 2 /\ mpc = "dispatch"
    /\ loaded.completed_batch_ranges # <<>>
    /\ Len(Ranges) > Len(loaded.completed_batch_ranges)
    /\ checkpoint.failed_batches > loaded.failed_batches
    /\ InUpdate = {}

\* C25: whenever no call of add_completed_batch is in progress, in a fresh
\* run and in a resumed one, processed_records is the sum of end - start over
\* the ranges and successful_batches is the number of ranges; the same holds
\* of every checkpoint of this source that is on disk.
C25_CountersMatchRanges ==
    /\ InSuccessUpdate = {} => Consistent(checkpoint)
    /\ (file.valid /\ FromJson(file.json).csv_file_path = CsvFile)
        => Consistent(FromJson(file.json))

\* a resumed run that has added a range of two rows to the loaded ones
C25_Witness ==
    /\ run = 2 /\ mpc = "dispatch" /\ InSuccessUpdate = {}
    /\ loaded.completed_batch_ranges # <<>>
    /\ order # <<>>
    /\ \E k \in 1..Len(Ranges) : Ranges[k][2] - Ranges[k][1] = 2
    /\ file.valid

\* main is still before the batch construction
Startup == mpc \in {"load", "health", "read"}

\* C26: a process that ends during start-up (undecodable artifact, failed
\* health check, unreadable source or row) ends with an error, has submitted
\* no batch, and no start-up step changes the checkpoint artifact; an
\* artifact that exists but cannot be decoded always ends the load so.
C26_FatalStartup ==
    /\ [](Startup /\ ~Running
            => status = "error" /\ tpc = NoTasks /\ processed_count = 0 /\ hpc = "none")
    /\ [][Startup /\ run' = run => file' = file]_vars
    /\ [][mpc = "load" /\ file.exists /\ ~file.valid /\ run' = run
            => status' = "error" /\ mpc' = "load"]_vars

\* a second run ended by the source read while the first run's checkpoint is on disk
C26_Witness ==
    /\ run = 2 /\ mpc = "read" /\ status = "error"
    /\ file.valid /\ FromJson(file.json).csv_file_path = CsvFile
    /\ file = Saved(checkpoint)

\* the artifact holds a decodable checkpoint of another dataset
Mismatched(f) == f.exists /\ f.valid /\ FromJson(f.json).csv_file_path # CsvFile

\* C27: with no artifact, or with an artifact of another dataset, the load is
\* not an error and the run starts fresh: zero progress, no ranges, resume
\* point 0, total_records from the current source, every row planned.
C27_AbsentOrMismatchStartsFresh ==
    /\ [][(mpc = "load" /\ run' = run /\ (~file.exists \/ Mismatched(file)))
            => /\ status' = "running" /\ mpc' = "health"
               /\ checkpoint' = New(CsvFile, 0)]_vars
    /\ []((Running /\ mpc = "planned" /\ (~file.exists \/ Mismatched(file)))
            => /\ checkpoint = New(CsvFile, csv.len)
               /\ GetSafeResumePoint(checkpoint) = 0
               /\ remaining_records = csv.len
               /\ PlannedRecords = 0..(csv.len - 1)
               /\ (batches # <<>> => batches[1].start_index = 0))

\* a run planned over three rows while another dataset's checkpoint is on disk
C27_Witness ==
    /\ Running /\ mpc = "planned" /\ Mismatched(file) /\ csv.len = 3
    /\ FromJson(file.json).completed_batch_ranges # <<>>

\* the artifact holds a decodable checkpoint of this source
OwnFile(f) == f.exists /\ f.valid /\ FromJson(f.json).csv_file_path = CsvFile

\* C28: within a run a non-zero total_records never changes; it changes only
\* from the sentinel 0, to the stored value at the load or to the number of
\* rows at the CSV read; and the total_records on disk stays what it was for
\* as long as the artifact is this source's, whatever length the source has
\* when a run resumes.
C28_TotalRecordsFixedOnceKnown ==
    /\ [][(run' = run /\ checkpoint.total_records # 0)
            => checkpoint'.total_records = checkpoint.total_records]_vars
    /\ [][(run' = run /\ checkpoint'.total_records # checkpoint.total_records)
            => \/ /\ mpc = "load" /\ OwnFile(file)
                  /\ checkpoint'.total_records = FromJson(file.json).total_records
               \/ /\ mpc = "read" /\ mpc' = "planned"
                  /\ checkpoint'.total_records = csv.len]_vars
    /\ [][(OwnFile(file) /\ OwnFile(file'))
            => FromJson(file'.json).total_records = FromJson(file.json).total_records]_vars
    /\ []((run = 1 /\ file = StaleFile /\ Running /\ mpc \notin {"load", "api"})
            => checkpoint.total_records = 2)

\* a run resumed on three rows from a checkpoint taken when the source held
\* two has saved again: the stored total is still 2
C28_Witness ==
    /\ OwnFile(file) /\ file # StaleFile /\ run = 1
    /\ csv.len = 3 /\ total_records = 3
    /\ FromJson(file.json).total_records = 2
    /\ Len(FromJson(file.json).completed_batch_ranges) > 1

---------------------------------------------------------------------------
(* Claims about the extracted fields of a document *)

DocReturned == mpc = "doc_returned"
HasProperties == call_in.raw_metadata.parsed /\ call_in.raw_metadata.properties.some
Props == call_in.raw_metadata.properties.map
Fields == call_in.config.extracted_fields

\* the source key of the k-th configured field is present in properties
Present(k) == Fields[k].source_key \in DOMAIN Props
SourceValue(k) == Props[Fields[k].source_key]

IsInteger(v) == v.t = "int"
IsString(v) == v.t = "str"
IsIntegerString(v) == IsString(v) /\ ParseI64(v.s).ok

\* the text of a string, or the decimal text of an integer
TextOf(v) == IF IsString(v) THEN v.s ELSE I64ToString(v.n)

\* the conversions as the code makes them
Converts(v, field_type) ==
    IF field_type = "Integer" THEN IsInteger(v) \/ IsIntegerString(v)
    ELSE IsInteger(v) \/ IsString(v)

\* the conversions as stated: a Keyword field converts strings
ConvertsAsStated(v, field_type) ==
    CASE field_type = "Integer" -> IsInteger(v) \/ IsIntegerString(v)
      [] field_type = "Keyword" -> IsString(v)
      [] OTHER -> IsInteger(v) \/ IsString(v)

\* the configured fields that yield a value
Converting == {k \in 1..Len(Fields) : Present(k) /\ Converts(SourceValue(k), Fields[k].field_type)}
ConvertingAsStated ==
    {k \in 1..Len(Fields) : Present(k) /\ ConvertsAsStated(SourceValue(k), Fields[k].field_type)}

\* the last configured field of that name that yields a value
LastConverting(name) ==
    CHOOSE k \in Converting :
        /\ Fields[k].name = name
        /\ \A j \in Converting : Fields[j].name = name => j <= k

\* the value the k-th configured field yields
Converted(k) ==
    LET v == SourceValue(k) IN
    CASE Fields[k].field_type = "Integer" ->
            IntVal(IF IsInteger(v) THEN v.n ELSE ParseI64(v.s).n)
      [] Fields[k].field_type = "Keyword" -> StrVal(ToLowercase(TextOf(v)))
      [] OTHER -> StrVal(TextOf(v))

\* C29: without a config, or without properties in raw_metadata, the
\* extracted fields are empty; otherwise they are exactly the names of the
\* configured fields whose source key is present and whose value converts
\* (Integer: an integer, or a string that parses as one, kept as integer;
\* Keyword: a string, or an integer as decimal text, lowercased; Text: a
\* string, or an integer as decimal text), each name holding the converted
\* value of the last configured field of that name that converts.
C29_ExtractedFields ==
    DocReturned =>
        IF ~call_in.config.some \/ ~HasProperties
        THEN call_out = EmptyMap
        ELSE /\ DOMAIN call_out = {Fields[k].name : k \in Converting}
             /\ \A name \in DOMAIN call_out : call_out[name] = Converted(LastConverting(name))

\* tier from the string "-7" as an integer, nft_type from "Ab" lowercased
C29_Witness ==
    /\ DocReturned /\ call_in.config.some /\ HasProperties
    /\ Fields = <<[name |-> "tier", field_type |-> "Integer", source_key |-> "tier"],
                  [name |-> "nft_type", field_type |-> "Keyword", source_key |-> "type"]>>
    /\ Props = [k \in SourceKeys |-> IF k = "tier" THEN StrVal(<<"-", "7">>)
                                    ELSE StrVal(<<"A", "b">>)]
    /\ DOMAIN call_out = {"tier", "nft_type"}
    /\ call_out["tier"] = IntVal(0 - 7)
    /\ call_out["nft_type"] = StrVal(<<"a", "b">>)

\* C29 as stated: a Keyword field yields a value for strings only
C29_ExtractedFieldsAsStated ==
    DocReturned =>
        IF ~call_in.config.some \/ ~HasProperties
        THEN call_out = EmptyMap
        ELSE DOMAIN call_out = {Fields[k].name : k \in ConvertingAsStated}

---------------------------------------------------------------------------
(* Claims about the final phase and the shutdown task *)

\* main found the migration completed and its cleanup has returned Ok
CleanedUp == mpc = "summary" /\ IsCompleted(checkpoint)

\* C30: once the cleanup of a completed migration has removed the artifact,
\* no artifact exists for the rest of the process, however the shutdown task
\* (lock, save, exit) interleaves with main's final phase.
C30_RemovedStaysRemoved == CleanedUp => ~file.exists

---------------------------------------------------------------------------
(* Claims about what the artifact holds *)

FileRanges == FromJson(file.json).completed_batch_ranges

\* the rows [start, end) the i-th planned batch holds
PlannedRange(i) == <<batches[i].start_index, batches[i].start_index + Len(batches[i].docs)>>

\* C31: once a run has loaded, the ranges of this source's artifact are a
\* prefix of the ranges in memory; a run starts from the ranges the artifact
\* held, every range it adds is the range of one of its batches whose
\* submission returned Ok, and every write of the artifact writes the ranges
\* in memory.
C31_ArtifactClaimsOnlyCommitted ==
    /\ []((OwnFile(file) /\ mpc # "load") => IsPrefix(FileRanges, Ranges))
    /\ [](Len(tpc) > 0 =>
            /\ IsPrefix(loaded.completed_batch_ranges, Ranges)
            /\ \A k \in (Len(loaded.completed_batch_ranges) + 1)..Len(Ranges) :
                \E i \in OkReturned : Ranges[k] = PlannedRange(i))
    /\ [][(mpc = "load" /\ mpc' = "health")
            => Ranges' = IF OwnFile(file) THEN FileRanges ELSE <<>>]_vars
    /\ [][(mpc \in {"health", "read", "planned"} /\ run' = run) => Ranges' = Ranges]_vars
    /\ [][(file' # file /\ OwnFile(file')) => FileRanges' = Ranges /\ Ranges' = Ranges]_vars

\* a resumed run, one batch failed, has committed a range the artifact does
\* not hold yet
C31_Witness ==
    /\ run = 2 /\ OwnFile(file) /\ FileRanges # <<>>
    /\ loaded.completed_batch_ranges = FileRanges
    /\ Len(Ranges) > Len(FileRanges)
    /\ \E i \in Tasks : results[i] = "err"

---------------------------------------------------------------------------
(* Claims about the resume point over the life of a checkpoint *)

\* two of the recorded ranges share a row, or are the same range twice
Overlapping ==
    \E j, k \in 1..Len(Ranges) :
        /\ j < k
        /\ \/ Ranges[j] = Ranges[k]
           \/ Ranges[j][1] < Ranges[k][2] /\ Ranges[k][1] < Ranges[j][2]

\* C32: whatever ranges are recorded (overlapping and duplicate ones
\* included), add_completed_batch with any start and any size >= 0 never
\* lowers get_safe_resume_point(), and add_failed_batch leaves it equal.
C32_ResumePointNeverDecreases ==
    /\ [][GetSafeResumePoint(checkpoint') >= GetSafeResumePoint(checkpoint)]_vars
    /\ [][checkpoint'.failed_batches # checkpoint.failed_batches
            => GetSafeResumePoint(checkpoint') = GetSafeResumePoint(checkpoint)]_vars

\* [0,2) recorded, then the overlapping [0,1) and an empty range, after a
\* failed batch: the resume point is still 2
C32_Witness ==
    /\ mpc = "api"
    /\ Ranges = <<<<0, 2>>, <<0, 1>>, <<2, 2>>>>
    /\ Overlapping
    /\ checkpoint.failed_batches = 1
    /\ GetSafeResumePoint(checkpoint) = 2

---------------------------------------------------------------------------
(* Claims about waiting for the lock *)

\* everyone who can ask for checkpoint_mutex
Requesters == {<<"main", 0>>, <<"shutdown", 0>>} \cup {<<"task", i>> : i \in 1..MaxRecords}

\* who is at a lock().await that the mutex can complete
AtLockAwait(who) ==
    CASE who[1] = "task" ->
            who[2] \in Tasks /\ mpc = "dispatch"
                /\ tpc[who[2]] \in {"ok_wantlock", "err_wantlock", "report_wantlock"}
      [] who[1] = "main" -> mpc \in {"final", "summary"}
      [] OTHER -> hpc = "signalled"

\* the holder of the guard is at a statement that leads to its release
HolderRuns ==
    CASE lock = "task" -> mpc = "dispatch" /\ InUpdate # {}
      [] lock = "main" -> mpc = "finalsave"
      [] lock = "shutdown" -> hpc \in {"locked", "saved", "save_failed"}
      [] OTHER -> FALSE

\* C33: while the process runs and somebody waits for the lock, either the
\* lock is free and the oldest waiter is at its lock().await, or the holder
\* is at a statement of its critical section; a requester (a future for its
\* update or its progress line, main for the final phase or the summary,
\* the shutdown task) stops waiting only by getting the free lock as the
\* oldest waiter; and whenever somebody waits, everybody who waits has been
\* served or the process has ended.
C33_NoDeadlockOnLock ==
    /\ []((Running /\ waiters # <<>>)
            => IF lock = "free" THEN AtLockAwait(Head(waiters)) ELSE HolderRuns)
    /\ [][\A who \in Requesters :
            (Waiting(who) /\ run' = run /\ ~(\E k \in 1..Len(waiters') : waiters'[k] = who))
                => who = Head(waiters) /\ lock = "free" /\ AtLockAwait(who)]_vars
    /\ (waiters # <<>>) ~> (waiters = <<>> \/ ~Running)

\* a future waits for its progress line and the shutdown task waits behind
\* it while another future holds the lock
C33_Witness ==
    /\ Running /\ lock = "task"
    /\ \E i \in Tasks : tpc[i] = "report_wantlock" /\ Waiting(<<"task", i>>)
    /\ Waiting(<<"shutdown", 0>>)

---------------------------------------------------------------------------
(* Claims about a run that finds nothing to do *)

\* the source is empty, or the resume point is at or past its last row
NothingRemains == csv.len = 0 \/ GetSafeResumePoint(checkpoint) >= csv.len

\* main is past the CSV read and no per-batch future, counter or shutdown task exists
NothingStarted == tpc = NoTasks /\ processed_count = 0 /\ hpc = "none" /\ lock = "free"

\* C34: when nothing remains after the CSV read, there is no batch, no
\* submission and no shutdown task, the read and the exit leave the
\* checkpoint in memory as it was loaded, and the only step of the run
\* removes the artifact if there is one and ends with status 0 - unless the
\* removal fails, which ends the run with an error and the artifact in place.
C34_NothingRemains ==
    /\ []((mpc = "planned" /\ NothingRemains)
            => /\ batches = <<>> /\ remaining_records = 0 /\ NothingStarted
               /\ (status = "exit0" => ~file.exists)
               /\ (status = "error" => file.exists))
    /\ []((mpc = "planned" /\ remaining_records = 0) => NothingRemains)
    /\ [][(mpc = "read" /\ mpc' = "planned" /\ remaining_records' = 0)
            => checkpoint' = checkpoint]_vars
    /\ [][(mpc = "planned" /\ remaining_records = 0 /\ Running)
            => /\ checkpoint' = checkpoint /\ mpc' = "planned" /\ NothingStarted'
               /\ \/ status' = "exit0" /\ ~file'.exists
                  \/ status' = "error" /\ file.exists /\ file' = file]_vars

\* a run that loaded a checkpoint covering the one row of the source has
\* removed the artifact and returned Ok
C34_Witness ==
    /\ mpc = "planned" /\ status = "exit0" /\ csv.len = 1
    /\ Ranges # <<>> /\ GetSafeResumePoint(checkpoint) >= csv.len
    /\ ~file.exists /\ batches = <<>>

\* C34 as stated: the run always removes the artifact and exits 0
C34_NothingRemainsAlwaysExitsZero ==
    [][(mpc = "planned" /\ remaining_records = 0 /\ Running)
        => status' = "exit0" /\ ~file'.exists]_vars

===========================================================================
